---- MODULE Spec2Model ----
(***************************************************************************)
(* A model of the train_station application: the catalogue tables (routes, *)
(* trains, journeys), the booking tables (orders, tickets), the REST       *)
(* handlers of views.py with the serializers of serializers.py, and the    *)
(* model methods of models.py.  The database is modelled as committed      *)
(* tables plus, for each order request inside transaction.atomic, the rows *)
(* it has written and not yet committed.                                   *)
(***************************************************************************)
EXTENDS Integers, Sequences, FiniteSets, TLC

VARIABLES
    routes,     \* committed Route rows
    trains,     \* committed Train rows
    journeys,   \* committed Journey rows
    orders,     \* committed Order rows
    tickets,    \* committed Ticket rows
    journeySeq, \* the last id the journey table's id sequence gave out
    reqs,       \* the order-creation requests, one record per request slot
    response,   \* the HTTP response produced last
    probe,      \* a call of Ticket.validate_ticket and its result
    calls       \* the journey requests in progress, one record per slot

vars == <<routes, trains, journeys, orders, tickets, journeySeq, reqs,
          response, probe, calls>>

db == <<routes, trains, journeys, orders, tickets, journeySeq>>

----------------------------------------------------------------------------
(* Bounds of the model. *)

\* The longest ticket list of an order request.
MaxTickets == 2

\* The number of trains, of journeys and of routes that are created.
MaxTrains == 1
MaxJourneys == 1
MaxRoutes == 2

\* The longest text of a query parameter, in characters.
MaxParamLen == 3

\* The order-creation requests of a run; any of them may run concurrently.
ReqIds == {1, 2}

\* Reference data that the modelled handlers only read: stations and crew
\* members.
Stations == {1, 2, 3}
Crews == {1, 2}

\* The times a journey may carry.
Times == {1, 2}

\* A field of a request body: Absent when the request does not carry it,
\* Given(v) when it carries the value v.
Absent == {}
Given(v) == {v}
ValueOf(field) == CHOOSE v \in field : TRUE

\* The sequences over S of length at most n.
RECURSIVE SeqsUpTo(_, _)
SeqsUpTo(S, n) ==
    IF n = 0 THEN {<<>>}
    ELSE LET shorter == SeqsUpTo(S, n - 1)
         IN shorter \cup {Append(q, x) : q \in {y \in shorter : Len(y) = n - 1}, x \in S}

----------------------------------------------------------------------------
(* Ticket.validate_ticket (models.py 157-172). *)

NoError == [field |-> "none", train_attr |-> "none", low |-> 0, high |-> 0]

\* The error raised for one attribute: the dictionary key is the ticket
\* attribute, the message names the train attribute and the range (1, count).
RangeError(ticket_attr_name, train_attr_name, count_attrs) ==
    [field |-> ticket_attr_name, train_attr |-> train_attr_name,
     low |-> 1, high |-> count_attrs]

ValidateTicketChecks_SeatFirst(cargo, seat) ==
    << [value |-> seat, name |-> "seat", attr |-> "places_in_cargo"],
       [value |-> cargo, name |-> "cargo", attr |-> "cargo_num"] >>

\* The list the loop of validate_ticket runs over.
ValidateTicketChecks(cargo, seat) ==
    << [value |-> cargo, name |-> "cargo", attr |-> "cargo_num"],
       [value |-> seat, name |-> "seat", attr |-> "places_in_cargo"] >>

\* getattr(train, train_attr_name)
TrainAttr(train, attr) ==
    IF attr = "cargo_num" THEN train.cargo_num ELSE train.places_in_cargo

InRange_Exclusive(value, count_attrs) == 1 <= value /\ value < count_attrs

\* 1 <= ticket_attr_value <= count_attrs
InRange(value, count_attrs) == 1 <= value /\ value <= count_attrs

\* The loop: the first attribute out of range raises, and nothing after it
\* is looked at.
RECURSIVE ValidateFrom(_, _, _)
ValidateFrom(checks, i, train) ==
    IF i > Len(checks) THEN NoError
    ELSE LET c == checks[i]
             count_attrs == TrainAttr(train, c.attr)
         IN IF ~InRange(c.value, count_attrs)
            THEN RangeError(c.name, c.attr, count_attrs)
            ELSE ValidateFrom(checks, i + 1, train)

validate_ticket(cargo, seat, train) ==
    ValidateFrom(ValidateTicketChecks(cargo, seat), 1, train)

\* Train.capacity (models.py 83-85)
capacity(train) == train.cargo_num * train.places_in_cargo

----------------------------------------------------------------------------
(* Table lookups. *)

RouteIds == {r.id : r \in routes}
TrainIds == {t.id : t \in trains}
JourneyIds == {j.id : j \in journeys}

TrainOf(id) == CHOOSE t \in trains : t.id = id
JourneyOf(id) == CHOOSE j \in journeys : j.id = id

\* The key of Ticket.Meta.unique_together (models.py 197-199).
UniqueKey(t) == <<t.journey, t.cargo, t.seat>>

\* The unique index the database keeps for unique_together: whether a row
\* with the key of `t` is among `rows`.
KeyTaken(rows, t) == \E x \in rows : UniqueKey(x) = UniqueKey(t)

----------------------------------------------------------------------------
(* Responses. *)

Resp(op, status, errors) == [op |-> op, status |-> status, errors |-> errors]

NoResponse == [op |-> "none", status |-> 0, errors |-> {}]

\* A request slot no request has used yet.
NoFailure == [exc |-> "", causes |-> {}]

\* request.user of a request without credentials.
AnonymousUser == ""

\* user is request.user; sent_user is what the request body carries under
\* the key "user", "" when it has no such key.
NoReq == [pc |-> "idle", user |-> AnonymousUser, sent_user |-> "",
          items |-> <<>>, idx |-> 0, errors |-> <<>>,
          ownOrder |-> {}, ownTickets |-> {}, outcome |-> "",
          error |-> NoFailure]

----------------------------------------------------------------------------
(* The requests of JourneyViewSet run in slots of their own.               *)

\* The journey request slots; requests in different slots run concurrently.
CallIds == {1, 2, 3}

NoBody == [route |-> Absent, train |-> Absent, departure_time |-> Absent,
           arrival_time |-> Absent, crew |-> Absent]

NoRow == [id |-> 0, route |-> 0, train |-> 0, departure_time |-> 0,
          arrival_time |-> 0, crew |-> {}]

\* A URL without query parameters.
NoQuery == [departure_time |-> Absent, route |-> Absent]

\* A slot no request is using: row is the instance the request holds, data
\* its body, errors the fields validation has refused so far, seen the ids
\* of the tickets its cascade has deleted, links the crew ids of the link
\* rows it has read or deleted, add and missing the crew ids crew.set is to
\* insert, wrote whether the transaction of crew.set has issued a write,
\* stale whether another request has committed a write since that
\* transaction first read.
NoCall == [pc |-> "idle", op |-> "none", row |-> NoRow, data |-> NoBody,
           partial |-> FALSE, errors |-> {}, seen |-> {}, links |-> {},
           add |-> {}, missing |-> {}, wrote |-> FALSE, stale |-> FALSE]

\* The transaction of crew.set in slot d has read and not written.
HasOnlyRead(cs, d) ==
    cs[d].pc = "links" \/ (cs[d].pc = "add" /\ ~cs[d].wrote)

\* The slots once the request of slot c (0: a request that uses no slot)
\* has committed a write: what the open crew.set transactions of the other
\* slots have read is no longer the latest state of the database.
AfterWrite(cs, c) ==
    [d \in CallIds |->
        IF d # c /\ HasOnlyRead(cs, d)
        THEN [cs[d] EXCEPT !.stale = TRUE] ELSE cs[d]]

----------------------------------------------------------------------------
(* RouteViewSet create with RouteSerializer (views.py 83-90, serializers.py *)
(* 35-38).  A ModelSerializer validates the fields (both stations exist,   *)
(* distance is an integer) and saves with Route.objects.create; it never   *)
(* calls Model.full_clean, so Route.clean is not run on this path.         *)

\* Route.clean (models.py 51-55): TRUE when it raises.
RouteCleanRaises(source, destination) == source = destination

RouteErrors(source, destination) ==
    {f \in {"source", "destination"} :
        \/ f = "source" /\ source \notin Stations
        \/ f = "destination" /\ destination \notin Stations}

CreateRoute(source, destination, distance) ==
    /\ Cardinality(routes) < MaxRoutes
    /\ LET errors == RouteErrors(source, destination)
       IN IF errors # {}
          THEN /\ response' = Resp("route_create", 400, errors)
               /\ UNCHANGED <<routes, calls>>
          ELSE /\ routes' = routes \cup
                     {[id |-> Cardinality(routes) + 1, source |-> source,
                       destination |-> destination, distance |-> distance]}
               /\ response' = Resp("route_create", 201, {})
               /\ calls' = AfterWrite(calls, 0)
    /\ UNCHANGED <<trains, journeys, orders, tickets, journeySeq, reqs, probe>>

(* RouteViewSet list (views.py 92-111).  A query parameter is a text, here  *)
(* a sequence of characters; Absent when the URL does not carry it.        *)

\* The sequences that hold every row of `rows` once: the orders in which
\* the database may return the rows of a query without ORDER BY (Route has
\* no Meta.ordering and get_queryset adds no order_by).
AnyOrder(rows) ==
    {seq \in [1..Cardinality(rows) -> rows] :
        \A i, k \in 1..Cardinality(rows) : seq[i] = seq[k] => i = k}

\* QuerySet.distinct(): every row once, at its first place.
RECURSIVE Distinct(_)
Distinct(seq) ==
    IF seq = <<>> THEN <<>>
    ELSE LET front == Distinct(SubSeq(seq, 1, Len(seq) - 1))
             last == seq[Len(seq)]
         IN IF \E i \in DOMAIN front : front[i] = last
            THEN front ELSE Append(front, last)

\* The pieces of a text between the occurrences of the character `sep`; a
\* text without it is one piece, and so is the empty text.
RECURSIVE SplitOn(_, _)
SplitOn(text, sep) ==
    IF \A i \in DOMAIN text : text[i] # sep
    THEN <<text>>
    ELSE LET i == CHOOSE k \in DOMAIN text :
                      text[k] = sep /\ \A m \in 1..(k - 1) : text[m] # sep
         IN <<SubSeq(text, 1, i - 1)>>
               \o SplitOn(SubSeq(text, i + 1, Len(text)), sep)

\* str.split(",")
Split(text) == SplitOn(text, ",")

\* int() ignores white space around the number.
RECURSIVE Strip(_)
Strip(text) ==
    IF text = <<>> THEN text
    ELSE IF text[1] = " " THEN Strip(Tail(text))
    ELSE IF text[Len(text)] = " " THEN Strip(SubSeq(text, 1, Len(text) - 1))
    ELSE text

IsDigit(c) == c \in {"0", "1", "2", "3", "4", "5", "6", "7", "8", "9"}

DigitValue(c) ==
    CASE c = "0" -> 0 [] c = "1" -> 1 [] c = "2" -> 2 [] c = "3" -> 3
      [] c = "4" -> 4 [] c = "5" -> 5 [] c = "6" -> 6 [] c = "7" -> 7
      [] c = "8" -> 8 [] c = "9" -> 9

\* int(str_id) raises ValueError unless the text, stripped, is a number.
IntRaises(text) ==
    LET t == Strip(text)
    IN t = <<>> \/ \E i \in DOMAIN t : ~IsDigit(t[i])

RECURSIVE DecimalValue(_)
DecimalValue(digits) ==
    IF digits = <<>> THEN 0
    ELSE DecimalValue(SubSeq(digits, 1, Len(digits) - 1)) * 10
            + DigitValue(digits[Len(digits)])

\* int(str_id)
IntOf(text) == DecimalValue(Strip(text))

\* RouteViewSet._params_to_ints (views.py 92-95).
ParamsToIntsRaises(qs) ==
    \E i \in DOMAIN Split(qs) : IntRaises(Split(qs)[i])

params_to_ints(qs) ==
    [i \in DOMAIN Split(qs) |-> IntOf(Split(qs)[i])]

\* `if source:`: the parameter is there and is not the empty text.
Truthy(param) == param # Absent /\ ValueOf(param) # <<>>

Elements(seq) == {seq[i] : i \in DOMAIN seq}

RouteFilter_Or(source, destination) ==
    LET keep(r) ==
          \/ ~Truthy(source) /\ ~Truthy(destination)
          \/ /\ Truthy(source)
             /\ r.source \in Elements(params_to_ints(ValueOf(source)))
          \/ /\ Truthy(destination)
             /\ r.destination
                   \in Elements(params_to_ints(ValueOf(destination)))
    IN {r \in routes : keep(r)}

\* RouteViewSet.get_queryset (views.py 97-111): the rows the two filters,
\* one after the other, let through.
RouteFilter(source, destination) ==
    LET bySource(r) ==
          Truthy(source) =>
             r.source \in Elements(params_to_ints(ValueOf(source)))
        byDestination(r) ==
          Truthy(destination) =>
             r.destination \in Elements(params_to_ints(ValueOf(destination)))
    IN {r \in {x \in routes : bySource(x)} : byDestination(r)}

\* GET /routes/?source=..&destination=..; a ValueError of int() leaves the
\* view unhandled and the client gets a server error.  The rows come in
\* the order the database returns them, through distinct().
ListRoutes(source, destination) ==
    /\ LET query == [source |-> source, destination |-> destination]
           raises ==
              \/ Truthy(source) /\ ParamsToIntsRaises(ValueOf(source))
              \/ /\ Truthy(destination)
                 /\ ParamsToIntsRaises(ValueOf(destination))
       IN IF raises
          THEN response' = [op |-> "route_list", status |-> 500,
                            errors |-> <<"ValueError">>, query |-> query,
                            results |-> <<>>]
          ELSE \E rows \in AnyOrder(RouteFilter(source, destination)) :
                  response' = [op |-> "route_list", status |-> 200,
                               errors |-> <<>>, query |-> query,
                               results |-> Distinct(rows)]
    /\ UNCHANGED <<db, reqs, probe, calls>>

----------------------------------------------------------------------------
(* TrainViewSet create with TrainSerializer (views.py 183-190,             *)
(* serializers.py 61-64): cargo_num and places_in_cargo are plain          *)
(* IntegerFields (models.py 74-75).                                        *)

CreateTrain(cargo_num, places_in_cargo) ==
    /\ Cardinality(trains) < MaxTrains
    /\ trains' = trains \cup
           {[id |-> Cardinality(trains) + 1, cargo_num |-> cargo_num,
             places_in_cargo |-> places_in_cargo]}
    /\ response' = Resp("train_create", 201, {})
    /\ calls' = AfterWrite(calls, 0)
    /\ UNCHANGED <<routes, journeys, orders, tickets, journeySeq, reqs, probe>>

(* TrainViewSet list (views.py 192-204).  A name is a sequence of           *)
(* characters.                                                             *)

\* The lower-case form of a character, for the letters of the model.
LowerChar(c) == CASE c = "A" -> "a" [] c = "B" -> "b" [] OTHER -> c

Lower(text) == [i \in DOMAIN text |-> LowerChar(text[i])]

\* Whether `needle` is a run of consecutive characters of `hay`.
Contains(hay, needle) ==
    \E k \in 0..(Len(hay) - Len(needle)) :
        SubSeq(hay, k + 1, k + Len(needle)) = needle

\* The name__contains lookup, which tells the cases apart.
TrainFilter_CaseSensitive(name, train_type) ==
    LET keep(t) ==
          /\ Truthy(name) => Contains(t.name, ValueOf(name))
          /\ Truthy(train_type) => t.train_type = IntOf(ValueOf(train_type))
    IN {t \in trains : keep(t)}

\* TrainViewSet.get_queryset (views.py 192-204): the rows name__icontains
\* and then train_type_id let through.
TrainFilter(name, train_type) ==
    LET byName(t) ==
          Truthy(name) => Contains(Lower(t.name), Lower(ValueOf(name)))
        byType(t) ==
          Truthy(train_type) => t.train_type = IntOf(ValueOf(train_type))
    IN {t \in {x \in trains : byName(x)} : byType(t)}

\* How the database compares two names is set by its collation: by the
\* code of each character (upper case before lower case), or letter by
\* letter whatever the case.
Collations == {"binary", "nocase"}

CharRank(c, collation) ==
    IF collation = "binary"
    THEN CASE c = "A" -> 1 [] c = "B" -> 2 [] c = "a" -> 3 [] c = "b" -> 4
    ELSE CASE c = "a" -> 1 [] c = "A" -> 1 [] c = "b" -> 2 [] c = "B" -> 2

\* Whether name `a` comes before name `b` or ties with it.
RECURSIVE NotAfter(_, _, _)
NotAfter(a, b, collation) ==
    IF a = <<>> THEN TRUE
    ELSE IF b = <<>> THEN FALSE
    ELSE IF CharRank(a[1], collation) # CharRank(b[1], collation)
    THEN CharRank(a[1], collation) < CharRank(b[1], collation)
    ELSE NotAfter(Tail(a), Tail(b), collation)

\* Train.Meta.ordering = ["name"] (models.py 90-91): the orders of `rows`
\* by name; rows whose names tie come in any order.
OrderedByName(rows, collation) ==
    {seq \in AnyOrder(rows) :
        \A i, k \in DOMAIN seq :
            i < k => NotAfter(seq[i].name, seq[k].name, collation)}

\* GET /trains/?name=..&train_type=..; a ValueError of int() leaves the
\* view unhandled and the client gets a server error.
ListTrains(name, train_type) ==
    /\ LET query == [name |-> name, train_type |-> train_type]
       IN IF Truthy(train_type) /\ IntRaises(ValueOf(train_type))
          THEN response' = [op |-> "train_list", status |-> 500,
                            errors |-> <<"ValueError">>, query |-> query,
                            results |-> <<>>]
          ELSE \E collation \in Collations :
               \E rows \in OrderedByName(TrainFilter(name, train_type),
                                         collation) :
                  response' = [op |-> "train_list", status |-> 200,
                               errors |-> <<>>, query |-> query,
                               results |-> Distinct(rows)]
    /\ UNCHANGED <<db, reqs, probe, calls>>

----------------------------------------------------------------------------
(* JourneyViewSet (views.py 271-312), a ModelViewSet: create, update,      *)
(* partial_update, destroy and list, with JourneySerializer                *)
(* (serializers.py 100-110) on the write paths.                            *)

\* Journey.clean (models.py 121-125): TRUE when it raises.
JourneyCleanRaises(departure_time, arrival_time) ==
    arrival_time <= departure_time

\* The errors of the fields `fields` of JourneySerializer for `data`: the
\* fields it refuses.  With `partial` (PATCH) a field the request does not
\* carry is skipped, otherwise it is required.  route and train are looked
\* up by their id, each in a query of its own.  crew is a many-to-many
\* field with blank=False: the list may not be empty.
JourneyErrors(fields, data, partial) ==
    {f \in fields :
        IF data[f] = Absent THEN ~partial
        ELSE CASE f = "route" -> ValueOf(data.route) \notin RouteIds
               [] f = "train" -> ValueOf(data.train) \notin TrainIds
               [] f = "crew" -> \/ ValueOf(data.crew) = {}
                                \/ ~(ValueOf(data.crew) \subseteq Crews)
               [] OTHER -> FALSE}

\* The rows an open transaction has written and not committed.
OpenTickets(r) == IF reqs[r].pc \in {"clean", "unique", "insert", "commit"}
                  THEN reqs[r].ownTickets ELSE {}

\* ModelSerializer.update, first half: every column the request carries is
\* set on the instance that get_object read; the crew, a many-to-many
\* field, is no column of the row.
JourneyUpdated(j, data) ==
    LET pick(f) == IF data[f] = Absent THEN j[f] ELSE ValueOf(data[f])
    IN [id |-> j.id, route |-> pick("route"), train |-> pick("train"),
        departure_time |-> pick("departure_time"),
        arrival_time |-> pick("arrival_time"), crew |-> j.crew]

OnDeleteJourney_SetNull(rows, id) ==
    {IF t.journey = id THEN [t EXCEPT !.journey = 0] ELSE t : t \in rows}

\* on_delete=models.CASCADE of Ticket.journey: the ticket rows that are left
\* when journey `id` is deleted.
OnDeleteJourney(rows, id) == {t \in rows : t.journey # id}

(* JourneyViewSet.get_queryset (views.py 284-303).  A datetime is a number  *)
(* of hours counted from 2024-08-28 00:00; a date is <<year, month, day>>. *)

AllDigits(text) == text # <<>> /\ \A i \in DOMAIN text : IsDigit(text[i])

\* datetime.strptime(text, "%Y-%m-%d") raises ValueError unless the text is
\* a year of four digits, a month of one or two digits in 1..12 and a day
\* of one or two digits in 1..31 (August has 31), with "-" between them.
StrptimeRaises(text) ==
    LET parts == SplitOn(text, "-")
    IN \/ Len(parts) # 3
       \/ \E i \in DOMAIN parts : ~AllDigits(parts[i])
       \/ Len(parts[1]) # 4
       \/ Len(parts[2]) > 2
       \/ Len(parts[3]) > 2
       \/ DecimalValue(parts[2]) \notin 1..12
       \/ DecimalValue(parts[3]) \notin 1..31

\* datetime.strptime(text, "%Y-%m-%d").date()
StrptimeDate(text) ==
    LET parts == SplitOn(text, "-")
    IN <<DecimalValue(parts[1]), DecimalValue(parts[2]),
         DecimalValue(parts[3])>>

\* The __date transform of the lookup departure_time__date: the calendar
\* date of a datetime.
DateOf(datetime) == <<2024, 8, 28 + (datetime \div 24)>>

\* The first hour of a date, for the dates of the model.
Midnight(date) == (date[3] - 28) * 24

JourneyFilter_ExactTime(departure_time, route) ==
    {j \in journeys :
        /\ Truthy(departure_time) =>
              j.departure_time = Midnight(StrptimeDate(ValueOf(departure_time)))
        /\ Truthy(route) => j.route = IntOf(ValueOf(route))}

\* The filters of get_queryset, one after the other.
JourneyFilter(departure_time, route) ==
    {j \in journeys :
        /\ Truthy(departure_time) =>
              DateOf(j.departure_time) = StrptimeDate(ValueOf(departure_time))
        /\ Truthy(route) => j.route = IntOf(ValueOf(route))}

(* The write handlers of JourneyViewSet.  No handler runs in a transaction *)
(* of its own: every statement is committed as it is executed, and the     *)
(* requests of different slots interleave between the statements.          *)
(* Validation reads the route and the train in queries of their own,       *)
(* between which other requests may create routes and trains.              *)

\* The crew ids of the rows the link table of Journey.crew holds for
\* journey `id`.
CrewOf(id) == UNION {j.crew : j \in {x \in journeys : x.id = id}}

\* POST /journeys/ arrives in slot c with body `data`.
CreateJourney(c, data) ==
    /\ calls[c].pc = "idle"
    /\ journeySeq < MaxJourneys
    /\ calls' = [calls EXCEPT ![c] =
                   [NoCall EXCEPT !.pc = "route", !.op = "journey_create",
                                  !.data = data]]
    /\ UNCHANGED <<db, reqs, response, probe>>

\* is_valid, first field of JourneySerializer.Meta.fields with a query:
\* route, looked up among the routes as they are now.
ValidateRoute(c) ==
    /\ calls[c].pc = "route"
    /\ calls' = [calls EXCEPT ![c].pc = "train",
                   ![c].errors = JourneyErrors({"route"}, calls[c].data,
                                               calls[c].partial)]
    /\ UNCHANGED <<db, reqs, response, probe>>

\* is_valid, the fields after route: train, looked up among the trains as
\* they are now, the two times, and crew, whose table no request of the
\* model changes.  With an error in any field the request is answered 400
\* with the fields refused; otherwise it goes on to its write.
ValidateTrain(c) ==
    /\ calls[c].pc = "train"
    /\ LET me == calls[c]
           errors == me.errors \cup
               JourneyErrors({"train", "departure_time", "arrival_time",
                              "crew"}, me.data, me.partial)
       IN IF errors # {}
          THEN /\ response' = Resp(me.op, 400, errors)
               /\ calls' = [calls EXCEPT ![c] = NoCall]
          ELSE /\ calls' = [calls EXCEPT
                      ![c].pc = IF me.op = "journey_create"
                                THEN "row" ELSE "save"]
               /\ UNCHANGED response
    /\ UNCHANGED <<db, reqs, probe>>

\* ModelSerializer.create, first statement: Journey.objects.create(...)
\* without the crew; a row with no crew is committed, and crew.set follows
\* as a transaction of its own.
CreateRow(c) ==
    /\ calls[c].pc = "row"
    /\ journeySeq < MaxJourneys
    /\ LET data == calls[c].data
           row == [id |-> journeySeq + 1, route |-> ValueOf(data.route),
                   train |-> ValueOf(data.train),
                   departure_time |-> ValueOf(data.departure_time),
                   arrival_time |-> ValueOf(data.arrival_time),
                   crew |-> {}]
       IN /\ journeySeq' = journeySeq + 1
          /\ journeys' = journeys \cup {row}
          /\ calls' = AfterWrite(
                 [calls EXCEPT ![c] =
                     [NoCall EXCEPT !.pc = "crew", !.op = "journey_create",
                         !.row = [NoRow EXCEPT !.id = row.id],
                         !.data = [NoBody EXCEPT !.crew = data.crew]]], c)
    /\ UNCHANGED <<routes, trains, orders, tickets, reqs, response, probe>>

\* instance.crew.set(...), which ends ModelSerializer.create and
\* ModelSerializer.update, opens a transaction of its own; its first
\* statement reads the crew ids of the link rows of the journey.
SetCrew(c) ==
    /\ calls[c].pc = "crew"
    /\ calls' = [calls EXCEPT ![c].pc = "links",
                   ![c].links = CrewOf(calls[c].row.id)]
    /\ UNCHANGED <<db, reqs, response, probe>>

\* crew.set, next: the DELETE of the link rows read that the new crew does
\* not name (no statement when there is none), which removes the ones that
\* are there now, and, where the engine cannot ignore conflicts, the SELECT
\* of the new ids that have a link row already.  Nothing is visible to
\* other requests before COMMIT.
RemoveCrew(c) ==
    /\ calls[c].pc = "links"
    /\ LET me == calls[c]
           new == ValueOf(me.data.crew)
           now == CrewOf(me.row.id)
       IN calls' = [calls EXCEPT ![c].pc = "add",
                      ![c].wrote = (me.links \ new # {}),
                      ![c].links = (me.links \ new) \cap now,
                      ![c].add = new \ me.links,
                      ![c].missing = (new \ me.links) \ now]
    /\ UNCHANGED <<db, reqs, response, probe>>

\* crew.set, last: the INSERT of the link rows and COMMIT.  The ids not
\* read at first are inserted with conflicts ignored or, on the other
\* path, the ids found missing are.  The link rows carry a foreign key to
\* the journey: when the journey is gone the transaction fails, and the
\* unhandled IntegrityError is answered 500.
AddCrew(c) ==
    /\ calls[c].pc = "add"
    /\ \E added \in {calls[c].add, calls[c].missing} :
       LET me == calls[c]
           id == me.row.id
       IN IF id \notin JourneyIds
          THEN /\ response' = IF added # {}
                              THEN Resp(me.op, 500, {"IntegrityError"})
                              ELSE Resp(me.op,
                                        IF me.op = "journey_create"
                                        THEN 201 ELSE 200, {})
               /\ calls' = [calls EXCEPT ![c] = NoCall]
               /\ UNCHANGED journeys
          ELSE /\ journeys' = (journeys \ {JourneyOf(id)}) \cup
                      {[JourneyOf(id) EXCEPT
                           !.crew = (@ \ me.links) \cup added]}
               /\ response' = Resp(me.op,
                      IF me.op = "journey_create" THEN 201 ELSE 200, {})
               /\ calls' = IF me.wrote \/ added # {}
                           THEN AfterWrite([calls EXCEPT ![c] = NoCall], c)
                           ELSE [calls EXCEPT ![c] = NoCall]
    /\ UNCHANGED <<routes, trains, orders, tickets, journeySeq, reqs, probe>>

\* Another request holds the write lock of the database: it has written in
\* a transaction that is still open, the one of a crew.set, of a delete or
\* of an order.
WriteOpen(c) ==
    \/ \E d \in CallIds \ {c} :
          \/ calls[d].pc \in {"tickets", "cascade"}
          \/ calls[d].pc = "add" /\ calls[d].wrote
    \/ \E r \in ReqIds : reqs[r].ownOrder # {}

\* On an engine with one writer (SQLite) the transaction of crew.set, which
\* reads before it writes, cannot go on to its first write (the DELETE, or
\* the INSERT when there was nothing to delete) while another transaction
\* holds the write lock or after another request has committed a write
\* since it read: the write fails with OperationalError ("database is
\* locked"), answered 500, and nothing of it is written.  A crew.set with
\* nothing to write commits as it is.
CrewLocked(c) ==
    /\ HasOnlyRead(calls, c)
    /\ \/ /\ calls[c].pc = "links"
          /\ calls[c].links \ ValueOf(calls[c].data.crew) # {}
       \/ calls[c].pc = "add" /\ calls[c].add # {}
    /\ WriteOpen(c) \/ calls[c].stale
    /\ response' = Resp(calls[c].op, 500, {"OperationalError"})
    /\ calls' = [calls EXCEPT ![c] = NoCall]
    /\ UNCHANGED <<db, reqs, probe>>

\* get_queryset raises ValueError on a departure_time strptime cannot read
\* and on a route int() cannot read.
QueryRaises(query) ==
    \/ /\ Truthy(query.departure_time)
       /\ StrptimeRaises(ValueOf(query.departure_time))
    \/ Truthy(query.route) /\ IntRaises(ValueOf(query.route))

\* The instance a request holds after get_object: the columns of the row.
\* The crew is no column, and a delete uses the id alone.
Instance(op, id) ==
    IF op = "journey_delete" THEN [NoRow EXCEPT !.id = id]
    ELSE [JourneyOf(id) EXCEPT !.crew = {}]

\* GenericAPIView.get_object over get_queryset: the row with this id among
\* the rows the query parameters let through, 404 when there is none.  The
\* request goes on with the instance it has read.
GetObject(c, op, id, query, data, partial) ==
    /\ calls[c].pc = "idle"
    /\ IF QueryRaises(query)
       THEN /\ response' = Resp(op, 500, {"ValueError"})
            /\ UNCHANGED calls
       ELSE IF \A j \in JourneyFilter(query.departure_time, query.route) :
                  j.id # id
       THEN /\ response' = Resp(op, 404, {})
            /\ UNCHANGED calls
       ELSE /\ calls' = [calls EXCEPT ![c] =
                   [NoCall EXCEPT
                       !.pc = IF op = "journey_delete" THEN "got"
                              ELSE "route",
                       !.op = op,
                       !.row = Instance(op, id), !.data = data,
                       !.partial = partial]]
            /\ UNCHANGED response
    /\ UNCHANGED <<db, reqs, probe>>

\* PUT (partial = FALSE) and PATCH (partial = TRUE) of journey `id`, first
\* statement: self.get_object(); is_valid follows.
UpdateJourney(c, id, query, data, partial) ==
    GetObject(c, "journey_update", id, query, data, partial)

\* The request goes on after the journey row was written: to crew.set when
\* the body has a crew, to the answer 200 otherwise.
RowSaved(c) ==
    IF calls[c].data.crew = Absent
    THEN /\ response' = Resp("journey_update", 200, {})
         /\ calls' = AfterWrite([calls EXCEPT ![c] = NoCall], c)
    ELSE /\ calls' = AfterWrite(
                [calls EXCEPT ![c] =
                    [NoCall EXCEPT !.pc = "crew", !.op = "journey_update",
                        !.row = [NoRow EXCEPT !.id = calls[c].row.id],
                        !.data = [NoBody EXCEPT
                                     !.crew = calls[c].data.crew]]], c)
         /\ UNCHANGED response

\* PUT and PATCH after is_valid: instance.save(), whose first statement is
\* an UPDATE of every column of the instance read by get_object.  When the
\* UPDATE matches no row, Model.save goes on to an INSERT, a statement of
\* its own.
SaveJourney(c) ==
    /\ calls[c].pc = "save"
    /\ LET me == calls[c]
           id == me.row.id
           stored == {j \in journeys : j.id = id}
       IN IF stored = {}
          THEN /\ calls' = [calls EXCEPT ![c].pc = "insert"]
               /\ UNCHANGED <<journeys, response>>
          ELSE /\ journeys' = (journeys \ stored) \cup
                      {[JourneyUpdated(me.row, me.data) EXCEPT
                           !.crew = CrewOf(id)]}
               /\ RowSaved(c)
    /\ UNCHANGED <<routes, trains, orders, tickets, journeySeq, reqs, probe>>

\* Model.save after an UPDATE that matched no row: the INSERT of the row
\* under its old id.  The link rows of a deleted journey went with it, so
\* the journey inserted again has no crew.  When another request has
\* inserted the row in between, the primary key fails the INSERT and the
\* unhandled IntegrityError is answered 500.
InsertJourney(c) ==
    /\ calls[c].pc = "insert"
    /\ LET me == calls[c]
       IN IF me.row.id \in JourneyIds
          THEN /\ response' = Resp("journey_update", 500, {"IntegrityError"})
               /\ calls' = [calls EXCEPT ![c] = NoCall]
               /\ UNCHANGED journeys
          ELSE /\ journeys' = journeys \cup
                      {[JourneyUpdated(me.row, me.data) EXCEPT !.crew = {}]}
               /\ RowSaved(c)
    /\ UNCHANGED <<routes, trains, orders, tickets, journeySeq, reqs, probe>>

\* DELETE of journey `id`, first statement: self.get_object().
DeleteJourney(c, id, query) ==
    GetObject(c, "journey_delete", id, query, NoBody, FALSE)

\* instance.delete(), first statement of its transaction: the DELETE of the
\* link rows of Journey.crew (models.py 119).  Until the transaction
\* commits the other requests still see these rows.
DeleteCrewLinks(c) ==
    /\ calls[c].pc = "got"
    /\ calls[c].op = "journey_delete"
    /\ calls' = [calls EXCEPT ![c].pc = "tickets",
                   ![c].links = CrewOf(calls[c].row.id)]
    /\ UNCHANGED <<db, reqs, response, probe>>

\* instance.delete(), second statement: the DELETE of the tickets of the
\* journey (Ticket.journey is on_delete=CASCADE, models.py 150-152).
DeleteTickets(c) ==
    /\ calls[c].pc = "tickets"
    /\ calls' = [calls EXCEPT ![c].pc = "cascade",
                   ![c].seen = {t.id : t \in {x \in tickets :
                                                x.journey = calls[c].row.id}}]
    /\ UNCHANGED <<db, reqs, response, probe>>

\* A delete that removes the journey row alone.
DeleteRow_JourneyOnly(c) ==
    /\ calls[c].pc = "cascade"
    /\ journeys' = {j \in journeys : j.id # calls[c].row.id}
    /\ response' = Resp("journey_delete", 204, {})
    /\ calls' = AfterWrite([calls EXCEPT ![c] = NoCall], c)
    /\ UNCHANGED <<routes, trains, orders, tickets, journeySeq, reqs, probe>>

\* instance.delete(), last statement and commit: the DELETE of the journey
\* row by its id, which removes nothing when the row is gone.  A ticket or
\* a link row of the journey that was committed after the statement that
\* deleted its table's rows still points to the journey: the foreign key
\* fails the transaction, nothing is deleted, and the unhandled
\* IntegrityError is answered 500.  Orders are not touched.
DeleteRow(c) ==
    /\ calls[c].pc = "cascade"
    /\ LET id == calls[c].row.id
           late == {t \in tickets : t.journey = id /\ t.id \notin calls[c].seen}
           lateLinks == CrewOf(id) \ calls[c].links
       IN IF late # {} \/ lateLinks # {}
          THEN /\ response' = Resp("journey_delete", 500, {"IntegrityError"})
               /\ UNCHANGED <<journeys, tickets>>
          ELSE /\ journeys' = {j \in journeys : j.id # id}
               /\ tickets' = OnDeleteJourney(tickets, id)
               /\ response' = Resp("journey_delete", 204, {})
    /\ calls' = AfterWrite([calls EXCEPT ![c] = NoCall], c)
    /\ UNCHANGED <<routes, trains, orders, journeySeq, reqs, probe>>

(* The annotated queryset of JourneyViewSet (views.py 272-280): journeys   *)
(* LEFT OUTER JOIN tickets, grouped by journey; Count("tickets") counts    *)
(* the joined rows whose ticket id is not NULL.                            *)
Null == <<"NULL">>

JoinTickets(j) ==
    IF \E t \in tickets : t.journey = j.id
    THEN {[journey |-> j.id, ticket |-> t.id] : t \in {x \in tickets : x.journey = j.id}}
    ELSE {[journey |-> j.id, ticket |-> Null]}

\* Count("*") in place of Count("tickets"): the NULL row of a journey with no
\* ticket is counted.
CountTickets_AllRows(j) == Cardinality(JoinTickets(j))

CountTickets(j) == Cardinality({row \in JoinTickets(j) : row.ticket # Null})

tickets_available(j) ==
    TrainOf(j.train).cargo_num * TrainOf(j.train).places_in_cargo
        - CountTickets(j)

\* One entry of the list response (JourneyListSerializer, serializers.py
\* 113-139).
JourneyListEntry(j) ==
    [id |-> j.id, train_capacity |-> capacity(TrainOf(j.train)),
     tickets_available |-> tickets_available(j)]

\* GET /journeys/ without filters; every journey of the model fits the
\* first page.
ListJourneys ==
    /\ response' = [op |-> "journey_list", status |-> 200,
                    errors |-> {},
                    results |-> {JourneyListEntry(j) : j \in journeys}]
    /\ UNCHANGED <<db, reqs, probe, calls>>

\* GET /journeys/?departure_time=..&route=..; a ValueError of strptime or
\* of int() leaves the view unhandled and the client gets a server error.
\* Every journey of the model fits the first page.
ListJourneysBy(departure_time, route) ==
    /\ LET query == [departure_time |-> departure_time, route |-> route]
           raises ==
              \/ /\ Truthy(departure_time)
                 /\ StrptimeRaises(ValueOf(departure_time))
              \/ Truthy(route) /\ IntRaises(ValueOf(route))
       IN IF raises
          THEN response' = [op |-> "journey_list", status |-> 500,
                            errors |-> <<"ValueError">>, query |-> query,
                            results |-> {}]
          ELSE response' = [op |-> "journey_list", status |-> 200,
                            errors |-> {}, query |-> query,
                            results |->
                               {JourneyListEntry(j) :
                                   j \in JourneyFilter(departure_time, route)}]
    /\ UNCHANGED <<db, reqs, probe, calls>>

----------------------------------------------------------------------------
(* OrderViewSet create (views.py 148-171) with OrderSerializer and the     *)
(* nested TicketSerializer (serializers.py 142-155, 204-217).              *)
(*                                                                         *)
(* serializer.is_valid() runs outside the transaction and reads committed  *)
(* rows.  perform_create then runs OrderSerializer.create inside           *)
(* transaction.atomic: the Order insert, and for every ticket Ticket.save, *)
(* which is full_clean() followed by the INSERT.  Each of these is one     *)
(* step of the request, so the steps of concurrent requests interleave.    *)

\* A serializer without the derived validator.
UniqueTogetherValidatorRaises_None(item) == FALSE

\* The UniqueTogetherValidator a ModelSerializer derives from
\* Ticket.Meta.unique_together when the serializer has all three fields.
UniqueTogetherValidatorRaises(item) == KeyTaken(tickets, item)

\* TicketSerializer.run_validation for one list entry, after the journey
\* id was resolved: the validators run, then TicketSerializer.validate
\* against the train of the Journey instance; the key of the error, "none"
\* when the entry is valid.
EntryError(item) ==
    IF UniqueTogetherValidatorRaises(item) THEN "non_field_errors"
    ELSE validate_ticket(item.cargo, item.seat, TrainOf(item.train)).field

ItemOk(e) == e = "none"

allow_empty_True == TRUE

\* tickets = TicketSerializer(many=True, read_only=False, allow_empty=False)
\* (serializers.py 205).
allow_empty == FALSE

\* The tickets of a request as they arrive: no Journey
\* instance stands behind them.
ReceivedItems(data) ==
    [i \in 1..Len(data) |->
        [journey |-> data[i].journey, cargo |-> data[i].cargo,
         seat |-> data[i].seat, train |-> 0]]

\* permission_classes = (IsAuthenticated,) (views.py 160).
IsAuthenticated(u) == u # AnonymousUser

\* POST /orders/ by user `u` with ticket list `data` and, in the body, the
\* key "user" set to `sent_user` ("" for a body without it), taking
\* request slot r; the slots are taken in the order the requests arrive.
\* The slot keeps what the request asked for and how it ended.  A request
\* without credentials is refused before the body is read; an empty list
\* is refused by the list field before any entry is looked at.  is_valid()
\* runs outside any transaction, one query after the other, so the entries
\* are validated in steps of their own.
PostOrder(r, u, data, sent_user) ==
    /\ reqs[r].pc = "idle"
    /\ \A q \in ReqIds : q < r => reqs[q].pc # "idle"
    /\ IF ~IsAuthenticated(u)
       THEN /\ response' = Resp("order_create", 401, <<>>)
            /\ UNCHANGED reqs
       ELSE IF Len(data) = 0 /\ ~allow_empty
       THEN /\ reqs' = [reqs EXCEPT ![r] =
                    [NoReq EXCEPT !.pc = "done", !.outcome = "rejected",
                                  !.user = u, !.sent_user = sent_user]]
            /\ response' = Resp("order_create", 400, <<"empty">>)
       ELSE /\ reqs' = [reqs EXCEPT ![r] =
                    [NoReq EXCEPT !.pc = IF Len(data) = 0
                                         THEN "begin" ELSE "fetch",
                                  !.user = u, !.sent_user = sent_user,
                                  !.items = ReceivedItems(data),
                                  !.idx = IF Len(data) = 0 THEN 0 ELSE 1]]
            /\ UNCHANGED response
    /\ UNCHANGED <<db, probe, calls>>

\* The entry at hand has been validated with error key `e` ("none" for a
\* valid entry).  ListSerializer validates every entry, whatever the
\* earlier ones gave; after the last one the request is answered 400 with
\* the list of errors, or goes on to perform_create when there is none.
EntryValidated(r, e) ==
    LET me == reqs[r]
        errors == Append(me.errors, e)
    IN IF me.idx < Len(me.items)
       THEN /\ reqs' = [reqs EXCEPT ![r].pc = "fetch", ![r].idx = @ + 1,
                          ![r].errors = errors]
            /\ UNCHANGED response
       ELSE IF \A i \in DOMAIN errors : ItemOk(errors[i])
       THEN /\ reqs' = [reqs EXCEPT ![r].pc = "begin", ![r].idx = 0,
                          ![r].errors = <<>>]
            /\ UNCHANGED response
       ELSE /\ reqs' = [reqs EXCEPT ![r].pc = "done",
                          ![r].outcome = "rejected", ![r].idx = 0,
                          ![r].errors = <<>>,
                          ![r].items = [i \in DOMAIN me.items |->
                                           [me.items[i] EXCEPT !.train = 0]]]
            /\ response' = Resp("order_create", 400, errors)

\* PrimaryKeyRelatedField.to_internal_value of the entry at hand: the
\* journey is read by its id; the Journey instance carries the train_id it
\* was read with, and the train is loaded from it.
FetchJourney(r) ==
    /\ reqs[r].pc = "fetch"
    /\ LET item == reqs[r].items[reqs[r].idx]
       IN IF item.journey \notin JourneyIds
          THEN EntryValidated(r, "journey")
          ELSE /\ reqs' = [reqs EXCEPT ![r].pc = "check",
                             ![r].items[reqs[r].idx].train =
                                 JourneyOf(item.journey).train]
               /\ UNCHANGED response
    /\ UNCHANGED <<db, probe, calls>>

\* run_validators and validate of the entry at hand.
ValidateEntry(r) ==
    /\ reqs[r].pc = "check"
    /\ EntryValidated(r, EntryError(reqs[r].items[reqs[r].idx]))
    /\ UNCHANGED <<db, probe, calls>>

OrderOwner_FromBody(request_user, sent_user) ==
    IF sent_user # "" THEN sent_user ELSE request_user

\* The owner of the created order: serializer.save(user=self.request.user)
\* (views.py 170-171); "user" is no field of OrderSerializer (serializers.py
\* 207-209), so the key is dropped from the validated data.
OrderOwner(request_user, sent_user) == request_user

\* Order.objects.create(user=request.user), the first statement inside
\* transaction.atomic (serializers.py 211-214); the loop over the tickets
\* follows, and with no ticket the block is left at once.
\* created_at is auto_now_add (models.py 135): the time of the insert, `now`.
InsertOrder(r, now) ==
    /\ reqs[r].pc = "begin"
    /\ reqs' = [reqs EXCEPT ![r].idx = 1,
                  ![r].pc = IF Len(reqs[r].items) = 0
                            THEN "commit" ELSE "clean",
                  ![r].ownOrder =
                      {[id |-> r, created_at |-> now,
                        user |-> OrderOwner(reqs[r].user, reqs[r].sent_user)]}]
    /\ UNCHANGED <<db, response, probe, calls>>

RolledBackRows_Kept(rows) == rows

\* transaction.atomic (serializers.py 211): of the rows a transaction wrote
\* before an exception left the block, the ones that stay in the tables.
RolledBackRows(rows) == {}

\* An exception leaves OrderSerializer.create: the transaction is rolled
\* back, and as neither Django's ValidationError nor a database error is
\* an APIException, the client gets a server error.
Rollback(r, exc, causes) ==
    /\ orders' = orders \cup RolledBackRows(reqs[r].ownOrder)
    /\ tickets' = tickets \cup RolledBackRows(reqs[r].ownTickets)
    /\ reqs' = [reqs EXCEPT ![r].pc = "done", ![r].outcome = "failed",
                  ![r].error = [exc |-> exc, causes |-> causes],
                  ![r].idx = 0, ![r].ownOrder = {}, ![r].ownTickets = {}]
    /\ response' = Resp("order_create", 500, <<exc>>)
    /\ UNCHANGED <<routes, trains, journeys, journeySeq>>

\* Model.validate_unique inside full_clean: a query inside the transaction,
\* which sees committed rows and the transaction's own rows.
ValidateUniqueRaises(r, item) == KeyTaken(tickets \cup reqs[r].ownTickets, item)

\* Ticket.clean (models.py 174-180): validate_ticket against
\* self.journey.train, the train cached on the Journey instance.
TicketCleanRaises(item) ==
    validate_ticket(item.cargo, item.seat, TrainOf(item.train)) # NoError

\* Ticket.save, first half: self.full_clean() (models.py 189).  clean_fields
\* asks the database whether the journey exists, clean checks the range;
\* the errors of the two are collected.
FieldErrors(item) ==
    {c \in {"journey", "range"} :
        \/ c = "journey" /\ item.journey \notin JourneyIds
        \/ c = "range" /\ TicketCleanRaises(item)}

\* full_clean, clean_fields and clean.  A field that failed is excluded
\* from validate_unique, and the one unique check names journey, cargo and
\* seat: with an error so far the check is not run and the ValidationError
\* carries the errors of the fields alone.
CleanTicket(r) ==
    /\ reqs[r].pc = "clean"
    /\ LET errors == FieldErrors(reqs[r].items[reqs[r].idx])
       IN IF errors # {}
          THEN Rollback(r, "ValidationError", errors)
          ELSE /\ reqs' = [reqs EXCEPT ![r].pc = "unique"]
               /\ UNCHANGED <<db, response>>
    /\ UNCHANGED <<probe, calls>>

\* full_clean, validate_unique: a query of its own after the fields were
\* found valid.
ValidateUnique(r) ==
    /\ reqs[r].pc = "unique"
    /\ IF ValidateUniqueRaises(r, reqs[r].items[reqs[r].idx])
       THEN Rollback(r, "ValidationError", {"unique"})
       ELSE /\ reqs' = [reqs EXCEPT ![r].pc = "insert"]
            /\ UNCHANGED <<db, response>>
    /\ UNCHANGED <<probe, calls>>

UniqueConstraintViolated_NoIndex(r, item) == FALSE

\* The unique index at INSERT: a committed row, or a row of the same
\* transaction, with the same key.
UniqueConstraintViolated(r, item) ==
    KeyTaken(tickets \cup reqs[r].ownTickets, item)

\* An uncommitted row of another open transaction with the same key: the
\* INSERT waits until that transaction commits or rolls back.
BlockedBy(r, q) ==
    /\ q # r
    /\ reqs[r].pc = "insert"
    /\ KeyTaken(OpenTickets(q), reqs[r].items[reqs[r].idx])

\* When the database checks the foreign key of a new row: at the INSERT,
\* or at COMMIT where the constraint is declared DEFERRABLE INITIALLY
\* DEFERRED, as Django declares it on the engines that support it.  The
\* engine is set outside the application.
ForeignKeyChecks == {"immediate", "deferred"}

\* The constraints the database checks at INSERT: the unique index and,
\* under immediate checking, the foreign key to the journey.
InsertErrors(r, item, fk) ==
    {c \in {"journey", "unique"} :
        \/ c = "journey" /\ fk = "immediate" /\ item.journey \notin JourneyIds
        \/ c = "unique" /\ UniqueConstraintViolated(r, item)}

\* Ticket.save, second half: super().save(), the INSERT (models.py 190-192).
InsertTicket(r) ==
    /\ reqs[r].pc = "insert"
    /\ \A q \in ReqIds : ~BlockedBy(r, q)
    /\ \E fk \in ForeignKeyChecks :
       LET me == reqs[r]
           item == me.items[me.idx]
           errors == InsertErrors(r, item, fk)
       IN IF errors # {}
          THEN Rollback(r, "IntegrityError", errors)
          ELSE /\ reqs' = [reqs EXCEPT
                      ![r].ownTickets = @ \cup
                          {[id |-> <<r, me.idx>>, order |-> r,
                            journey |-> item.journey, cargo |-> item.cargo,
                            seat |-> item.seat]},
                      ![r].idx = @ + 1,
                      ![r].pc = IF me.idx = Len(me.items)
                                THEN "commit" ELSE "clean"]
               /\ UNCHANGED <<db, response>>
    /\ UNCHANGED <<probe, calls>>

\* Two transactions each waiting for a row of the other: the database
\* aborts one of them.
DeadlockAbort(r) ==
    /\ \E q \in ReqIds : BlockedBy(r, q) /\ BlockedBy(q, r)
    /\ Rollback(r, "OperationalError", {"deadlock"})
    /\ UNCHANGED <<probe, calls>>

\* Leaving transaction.atomic without an exception: COMMIT.  The foreign
\* keys whose check was deferred are checked now, and a ticket whose
\* journey is gone fails the transaction; otherwise the rows are committed
\* and the view answers 201.
CommitOrder(r) ==
    /\ reqs[r].pc = "commit"
    /\ IF \E t \in reqs[r].ownTickets : t.journey \notin JourneyIds
       THEN /\ Rollback(r, "IntegrityError", {"journey"})
            /\ UNCHANGED calls
       ELSE /\ orders' = orders \cup reqs[r].ownOrder
            /\ tickets' = tickets \cup reqs[r].ownTickets
            /\ reqs' = [reqs EXCEPT ![r].pc = "done",
                          ![r].outcome = "created", ![r].idx = 0,
                          ![r].ownOrder = {}, ![r].ownTickets = {}]
            /\ response' = Resp("order_create", 201, <<>>)
            /\ calls' = AfterWrite(calls, 0)
            /\ UNCHANGED <<routes, trains, journeys, journeySeq>>
    /\ UNCHANGED probe

\* OrderViewSet.get_queryset (views.py 162-163):
\* self.queryset.filter(user=self.request.user).
OrderQueryset(u) == {o \in orders : o.user = u}

\* GET /orders/ by user `u`; the orders of the model fit the first page.
ListOrders(u) ==
    /\ IF ~IsAuthenticated(u)
       THEN response' = Resp("order_list", 401, <<>>)
       ELSE response' = [op |-> "order_list", status |-> 200, errors |-> <<>>,
                         user |-> u, results |-> OrderQueryset(u)]
    /\ UNCHANGED <<db, reqs, probe, calls>>

----------------------------------------------------------------------------
(* The booking specification: journey requests and concurrent order       *)
(* requests, statement by statement, over a catalogue that                 *)
(* holds one route and two trains, one of two cars with one seat each and  *)
(* one of one car with two seats.                                          *)

TheRoute == [id |-> 1, source |-> 1, destination |-> 2, distance |-> 1]

BookingTrains ==
    {[id |-> 1, cargo_num |-> 2, places_in_cargo |-> 1],
     [id |-> 2, cargo_num |-> 1, places_in_cargo |-> 2]}

EmptyDb ==
    /\ routes = {}
    /\ trains = {}
    /\ journeys = {}
    /\ orders = {}
    /\ tickets = {}
    /\ journeySeq = 0

IdleProbe == [cargo |-> 0, seat |-> 0,
              train |-> [cargo_num |-> 0, places_in_cargo |-> 0],
              called |-> TRUE, result |-> NoError]

Init ==
    /\ routes = {TheRoute}
    /\ trains = BookingTrains
    /\ journeys = {}
    /\ orders = {}
    /\ tickets = {}
    /\ journeySeq = 0
    /\ reqs = [r \in ReqIds |-> NoReq]
    /\ response = NoResponse
    /\ probe = IdleProbe
    /\ calls = [c \in CallIds |-> NoCall]

BookingJourneyData(train) ==
    [route |-> Given(1), train |-> Given(train), departure_time |-> Given(1),
     arrival_time |-> Given(2), crew |-> Given({1})]

TrainPatch(train) ==
    [route |-> Absent, train |-> Given(train), departure_time |-> Absent,
     arrival_time |-> Absent, crew |-> Absent]

\* The booking specification creates one journey.
BookingJourneyIds == {1}

TicketData == [journey : BookingJourneyIds, cargo : {1}, seat : 1..2]

TicketLists == SeqsUpTo(TicketData, MaxTickets)

\* The lists of the order request that arrives first: one ticket.
SingleTickets == {<<t>> : t \in TicketData}

\* The journey requests of the booking specification run one at a time,
\* each concurrently with the order requests.
BookingCalls == {1}

Next ==
    \/ \E c \in BookingCalls :
          /\ journeySeq + 1 \in BookingJourneyIds
          /\ CreateJourney(c, BookingJourneyData(2))
    \/ \E c \in BookingCalls, j \in BookingJourneyIds, t \in {1, 2} :
          UpdateJourney(c, j, NoQuery, TrainPatch(t), TRUE)
    \/ \E c \in BookingCalls : ValidateRoute(c)
    \/ \E c \in BookingCalls : ValidateTrain(c)
    \/ \E c \in BookingCalls : CreateRow(c)
    \/ \E c \in BookingCalls : SaveJourney(c)
    \/ \E c \in BookingCalls : SetCrew(c)
    \/ \E c \in BookingCalls : RemoveCrew(c)
    \/ \E c \in BookingCalls : AddCrew(c)
    \/ \E c \in BookingCalls : CrewLocked(c)
    \/ \E c \in BookingCalls, j \in BookingJourneyIds :
          DeleteJourney(c, j, NoQuery)
    \/ \E c \in BookingCalls : DeleteCrewLinks(c)
    \/ \E c \in BookingCalls : DeleteTickets(c)
    \/ \E c \in BookingCalls : DeleteRow(c)
    \/ ListJourneys
    \/ \E data \in SingleTickets : PostOrder(1, "u1", data, "")
    \/ \E data \in TicketLists : PostOrder(2, "u1", data, "")
    \/ \E r \in ReqIds : FetchJourney(r)
    \/ \E r \in ReqIds : ValidateEntry(r)
    \/ \E r \in ReqIds : InsertOrder(r, r)
    \/ \E r \in ReqIds : CleanTicket(r)
    \/ \E r \in ReqIds : ValidateUnique(r)
    \/ \E r \in ReqIds : InsertTicket(r)
    \/ \E r \in ReqIds : CommitOrder(r)

Spec == Init /\ [][Next]_vars

----------------------------------------------------------------------------
(* The route specification: routes created through the route endpoint.    *)

InitRoutes ==
    /\ EmptyDb
    /\ reqs = [r \in ReqIds |-> NoReq]
    /\ response = NoResponse
    /\ probe = IdleProbe
    /\ calls = [c \in CallIds |-> NoCall]

\* 0 is the id of no station.
NextRoutes ==
    \E source \in Stations \cup {0}, destination \in Stations \cup {0},
       distance \in {1, 5} :
        CreateRoute(source, destination, distance)

SpecRoutes == InitRoutes /\ [][NextRoutes]_vars

----------------------------------------------------------------------------
(* The route list specification: Init draws a route table, the action      *)
(* lists it under a pair of query parameters.                              *)

\* Stations 1, 2 and 12, and three routes between them.
ListedRoutes ==
    {[id |-> 1, source |-> 1, destination |-> 2, distance |-> 1],
     [id |-> 2, source |-> 2, destination |-> 12, distance |-> 1],
     [id |-> 3, source |-> 12, destination |-> 2, distance |-> 1]}

\* The texts sent as source and destination: every text of digits, commas
\* and blanks up to the bound, and beyond it the texts of two ids joined by
\* "," or, as the repository's tests join them, by ", ".
QueryTexts ==
    LET ids == {<<"1">>, <<"2">>, <<"1", "2">>}
    IN SeqsUpTo({"1", "2", ",", " "}, MaxParamLen) \cup
       {a \o sep \o b : a \in ids, sep \in {<<",">>, <<",", " ">>},
                        b \in ids}

QueryParams == {Absent} \cup {Given(t) : t \in QueryTexts}

InitRouteList ==
    /\ routes \in SUBSET ListedRoutes
    /\ trains = {}
    /\ journeys = {}
    /\ orders = {}
    /\ tickets = {}
    /\ journeySeq = 0
    /\ reqs = [r \in ReqIds |-> NoReq]
    /\ response = NoResponse
    /\ probe = IdleProbe
    /\ calls = [c \in CallIds |-> NoCall]

\* One request is served in a run.
NextRouteList ==
    /\ response = NoResponse
    /\ \E source \in QueryParams, destination \in QueryParams :
          ListRoutes(source, destination)

SpecRouteList == InitRouteList /\ [][NextRouteList]_vars

----------------------------------------------------------------------------
(* The journey list specification: Init draws a journey table, the action  *)
(* lists it under a pair of query parameters.                              *)

\* Journeys on two routes leaving on 2024-08-28 at 00:00 and at 23:00 and
\* on 2024-08-29 at 00:00.
ListedJourneys ==
    {[id |-> 1, route |-> 1, train |-> 1, departure_time |-> 0,
      arrival_time |-> 30, crew |-> {1}],
     [id |-> 2, route |-> 1, train |-> 1, departure_time |-> 23,
      arrival_time |-> 30, crew |-> {1}],
     [id |-> 3, route |-> 1, train |-> 2, departure_time |-> 24,
      arrival_time |-> 30, crew |-> {1}],
     [id |-> 4, route |-> 2, train |-> 2, departure_time |-> 23,
      arrival_time |-> 30, crew |-> {1}]}

TwoRoutes == {TheRoute,
              [id |-> 2, source |-> 2, destination |-> 1, distance |-> 1]}

\* The texts sent as departure_time: three dates, one of them also with
\* the month in one digit; a date with a time after it; a date in the order
\* day-month-year; the empty text.
DateTexts ==
    {<<"2", "0", "2", "4", "-", "0", "8", "-", "2", "8">>,
     <<"2", "0", "2", "4", "-", "8", "-", "2", "8">>,
     <<"2", "0", "2", "4", "-", "0", "8", "-", "2", "9">>,
     <<"2", "0", "2", "4", "-", "0", "8", "-", "3", "0">>,
     <<"2", "0", "2", "4", "-", "0", "8", "-", "2", "8", " ", "1", "0">>,
     <<"2", "8", "-", "0", "8", "-", "2", "0", "2", "4">>,
     <<>>}

\* The texts sent as route: ids, a list of ids, a name, the empty text.
RouteTexts == {<<"1">>, <<"2">>, <<" ", "2">>, <<"1", ",", "2">>, <<"x">>, <<>>}

InitJourneyList ==
    /\ routes = TwoRoutes
    /\ trains = BookingTrains
    /\ journeys \in SUBSET ListedJourneys
    /\ orders = {}
    /\ tickets = {}
    /\ journeySeq = Cardinality(ListedJourneys)
    /\ reqs = [r \in ReqIds |-> NoReq]
    /\ response = NoResponse
    /\ probe = IdleProbe
    /\ calls = [c \in CallIds |-> NoCall]

\* One request is served in a run.
NextJourneyList ==
    /\ response = NoResponse
    /\ \E departure_time \in {Absent} \cup {Given(t) : t \in DateTexts},
          route \in {Absent} \cup {Given(t) : t \in RouteTexts} :
            ListJourneysBy(departure_time, route)

SpecJourneyList == InitJourneyList /\ [][NextJourneyList]_vars

----------------------------------------------------------------------------
(* The train list specification: Init draws a train table, the action      *)
(* lists it under a pair of query parameters.                              *)

\* Trains named "Ab", "ba" and "B", of train types 1, 1 and 2.
ListedTrains ==
    {[id |-> 1, name |-> <<"A", "b">>, train_type |-> 1, cargo_num |-> 1,
      places_in_cargo |-> 1],
     [id |-> 2, name |-> <<"b", "a">>, train_type |-> 1, cargo_num |-> 1,
      places_in_cargo |-> 1],
     [id |-> 3, name |-> <<"B">>, train_type |-> 2, cargo_num |-> 1,
      places_in_cargo |-> 1]}

NameTexts == SeqsUpTo({"a", "A", "b"}, MaxParamLen)

InitTrainList ==
    /\ routes = {}
    /\ trains \in SUBSET ListedTrains
    /\ journeys = {}
    /\ orders = {}
    /\ tickets = {}
    /\ journeySeq = 0
    /\ reqs = [r \in ReqIds |-> NoReq]
    /\ response = NoResponse
    /\ probe = IdleProbe
    /\ calls = [c \in CallIds |-> NoCall]

\* One request is served in a run.
NextTrainList ==
    /\ response = NoResponse
    /\ \E name \in {Absent} \cup {Given(t) : t \in NameTexts},
          train_type \in {Absent} \cup
              {Given(t) : t \in {<<"1">>, <<"2">>, <<"3">>, <<"x">>, <<>>}} :
            ListTrains(name, train_type)

SpecTrainList == InitTrainList /\ [][NextTrainList]_vars

----------------------------------------------------------------------------
(* The journey specification: trains and journeys created, updated,        *)
(* deleted and listed through their endpoints, over one route.             *)

InitJourneys ==
    /\ routes = {TheRoute}
    /\ trains = {}
    /\ journeys = {}
    /\ orders = {}
    /\ tickets = {}
    /\ journeySeq = 0
    /\ reqs = [r \in ReqIds |-> NoReq]
    /\ response = NoResponse
    /\ probe = IdleProbe
    /\ calls = [c \in CallIds |-> NoCall]

\* The sizes a client sends for a train; IntegerField sets no minimum.
TrainShapes == {<<1, 2>>, <<-1, 2>>}

\* Journey request bodies: route 2 is the id of no route until a second
\* route is created, and any field but the times may be missing.
JourneyBodies ==
    [route : {Absent, Given(1), Given(2)},
     train : {Absent} \cup {Given(t) : t \in 1..MaxTrains},
     departure_time : {Given(t) : t \in Times},
     arrival_time : {Given(t) : t \in Times},
     crew : {Absent, Given({}), Given({1})}]

\* PUT bodies: all fields, the times in any order.
JourneyPuts ==
    [route : {Given(1)}, train : {Given(1)},
     departure_time : {Given(t) : t \in Times},
     arrival_time : {Given(t) : t \in Times},
     crew : {Given({2})}]

JourneyPatches ==
    {d \in [route : {Absent}, train : {Absent} \cup {Given(t) : t \in 1..MaxTrains},
            departure_time : {Absent} \cup {Given(t) : t \in Times},
            arrival_time : {Absent} \cup {Given(t) : t \in Times},
            crew : {Absent, Given({})}] :
        Cardinality({f \in DOMAIN d : d[f] # Absent}) = 1}

\* The slots of the journey specification: the first sends the creations
\* and the updates, one after the other, the third deletes.
DeleteCalls == {3}

NextJourneys ==
    \/ \E shape \in TrainShapes : CreateTrain(shape[1], shape[2])
    \/ CreateRoute(2, 1, 1)
    \/ \E c \in BookingCalls, data \in JourneyBodies : CreateJourney(c, data)
    \/ \E c \in CallIds : ValidateRoute(c)
    \/ \E c \in CallIds : ValidateTrain(c)
    \/ \E c \in CallIds : CreateRow(c)
    \/ \E c \in BookingCalls, j \in 1..MaxJourneys, data \in JourneyPuts :
          UpdateJourney(c, j, NoQuery, data, FALSE)
    \/ \E c \in BookingCalls, j \in 1..MaxJourneys, data \in JourneyPatches :
          UpdateJourney(c, j, NoQuery, data, TRUE)
    \/ \E c \in CallIds : SaveJourney(c)
    \/ \E c \in CallIds : InsertJourney(c)
    \/ \E c \in CallIds : SetCrew(c)
    \/ \E c \in CallIds : RemoveCrew(c)
    \/ \E c \in CallIds : AddCrew(c)
    \/ \E c \in CallIds : CrewLocked(c)
    \/ \E c \in DeleteCalls, j \in 1..MaxJourneys : DeleteJourney(c, j, NoQuery)
    \/ \E c \in CallIds : DeleteCrewLinks(c)
    \/ \E c \in CallIds : DeleteTickets(c)
    \/ \E c \in CallIds : DeleteRow(c)
    \/ ListJourneys

SpecJourneys == InitJourneys /\ [][NextJourneys]_vars

----------------------------------------------------------------------------
(* The orders specification: users, with and without credentials, create   *)
(* and list orders for one journey on the train of one car with two seats. *)

Users == {"u1", "u2"}

TheJourney == [id |-> 1, route |-> 1, train |-> 2, departure_time |-> 1,
               arrival_time |-> 2, crew |-> {1}]

InitOrders ==
    /\ routes = {TheRoute}
    /\ trains = BookingTrains
    /\ journeys = {TheJourney}
    /\ orders = {}
    /\ tickets = {}
    /\ journeySeq = 1
    /\ reqs = [r \in ReqIds |-> NoReq]
    /\ response = NoResponse
    /\ probe = IdleProbe
    /\ calls = [c \in CallIds |-> NoCall]

OrderTicketLists ==
    SeqsUpTo([journey : {1}, cargo : {1}, seat : 1..2], MaxTickets)

NextOrders ==
    \/ \E r \in ReqIds, u \in Users \cup {AnonymousUser},
          data \in OrderTicketLists, sent_user \in {"", "u2"} :
            PostOrder(r, u, data, sent_user)
    \/ \E r \in ReqIds : FetchJourney(r)
    \/ \E r \in ReqIds : ValidateEntry(r)
    \/ \E r \in ReqIds : InsertOrder(r, 1)
    \/ \E r \in ReqIds : CleanTicket(r)
    \/ \E r \in ReqIds : ValidateUnique(r)
    \/ \E r \in ReqIds : InsertTicket(r)
    \/ \E r \in ReqIds : DeadlockAbort(r)
    \/ \E r \in ReqIds : CommitOrder(r)
    \/ \E u \in Users \cup {AnonymousUser} : ListOrders(u)

SpecOrders == InitOrders /\ [][NextOrders]_vars

----------------------------------------------------------------------------
(* The race specification: two order requests for seats of one journey    *)
(* run concurrently, every statement of one between the statements of the *)
(* other.                                                                 *)

NextRace ==
    \/ \E r \in ReqIds, data \in TicketLists : PostOrder(r, "u1", data, "")
    \/ \E r \in ReqIds : FetchJourney(r)
    \/ \E r \in ReqIds : ValidateEntry(r)
    \/ \E r \in ReqIds : InsertOrder(r, 1)
    \/ \E r \in ReqIds : CleanTicket(r)
    \/ \E r \in ReqIds : ValidateUnique(r)
    \/ \E r \in ReqIds : InsertTicket(r)
    \/ \E r \in ReqIds : DeadlockAbort(r)
    \/ \E r \in ReqIds : CommitOrder(r)
    \/ \E c \in BookingCalls, j \in BookingJourneyIds :
          DeleteJourney(c, j, NoQuery)
    \/ \E c \in BookingCalls : DeleteCrewLinks(c)
    \/ \E c \in BookingCalls : DeleteTickets(c)
    \/ \E c \in BookingCalls : DeleteRow(c)

SpecRace == InitOrders /\ [][NextRace]_vars

----------------------------------------------------------------------------
(* The overlap specification: two PATCH requests and a DELETE of one       *)
(* journey run concurrently, every statement of one between the           *)
(* statements of the others, on the journey of the orders specification.  *)

PatchCalls == {1, 2}

\* PATCH bodies of one field: the train, the crew, the arrival time.
OverlappingPatches ==
    {TrainPatch(1),
     [NoBody EXCEPT !.crew = Given({2})],
     [NoBody EXCEPT !.crew = Given({1})],
     [NoBody EXCEPT !.arrival_time = Given(1)]}

NextOverlap ==
    \/ \E c \in PatchCalls, data \in OverlappingPatches :
          UpdateJourney(c, 1, NoQuery, data, TRUE)
    \/ \E c \in CallIds : ValidateRoute(c)
    \/ \E c \in CallIds : ValidateTrain(c)
    \/ \E c \in CallIds : SaveJourney(c)
    \/ \E c \in CallIds : InsertJourney(c)
    \/ \E c \in CallIds : SetCrew(c)
    \/ \E c \in CallIds : RemoveCrew(c)
    \/ \E c \in CallIds : AddCrew(c)
    \/ \E c \in CallIds : CrewLocked(c)
    \/ \E c \in DeleteCalls : DeleteJourney(c, 1, NoQuery)
    \/ \E c \in CallIds : DeleteCrewLinks(c)
    \/ \E c \in CallIds : DeleteTickets(c)
    \/ \E c \in CallIds : DeleteRow(c)

SpecOverlap == InitOrders /\ [][NextOverlap]_vars

----------------------------------------------------------------------------

(* Deleting journeys that have tickets: two journeys stand in the table,   *)
(* orders are placed for seats of both, and either journey is deleted or  *)
(* moved to another train or route at any point in between.               *)

SecondJourney == [TheJourney EXCEPT !.id = 2]

InitCascade ==
    /\ routes = {TheRoute}
    /\ trains = BookingTrains
    /\ journeys = {TheJourney, SecondJourney}
    /\ orders = {}
    /\ tickets = {}
    /\ journeySeq = 2
    /\ reqs = [r \in ReqIds |-> NoReq]
    /\ response = NoResponse
    /\ probe = IdleProbe
    /\ calls = [c \in CallIds |-> NoCall]

CascadeTicketLists ==
    SeqsUpTo([journey : {1, 2}, cargo : {1}, seat : {1}], MaxTickets)

\* PATCH bodies that set one foreign key: train 3 and route 2 are the ids
\* of no row, train 2 is the train the journeys are on.
ForeignKeyPatches ==
    {TrainPatch(2), TrainPatch(3),
     [TrainPatch(1) EXCEPT !.train = Absent, !.route = Given(2)]}

\* The query strings of the delete requests: none, the route of no
\* journey, and a route that is no number.
CascadeQueries ==
    {NoQuery, [NoQuery EXCEPT !.route = Given(<<"2">>)],
     [NoQuery EXCEPT !.route = Given(<<"x">>)]}

\* The slots of the delete requests; the first also sends the PATCHes.
CascadeCalls == {1, 2}

NextCascade ==
    \/ \E data \in CascadeTicketLists : PostOrder(1, "u1", data, "")
    \/ \E r \in ReqIds : FetchJourney(r)
    \/ \E r \in ReqIds : ValidateEntry(r)
    \/ \E r \in ReqIds : InsertOrder(r, 1)
    \/ \E r \in ReqIds : CleanTicket(r)
    \/ \E r \in ReqIds : ValidateUnique(r)
    \/ \E r \in ReqIds : InsertTicket(r)
    \/ \E r \in ReqIds : CommitOrder(r)
    \/ \E c \in BookingCalls, j \in {1, 2}, data \in ForeignKeyPatches :
          UpdateJourney(c, j, NoQuery, data, TRUE)
    \/ \E c \in BookingCalls : ValidateRoute(c)
    \/ \E c \in BookingCalls : ValidateTrain(c)
    \/ \E c \in BookingCalls : SaveJourney(c)
    \/ \E c \in BookingCalls : InsertJourney(c)
    \/ \E c \in CascadeCalls, j \in {1, 2}, query \in CascadeQueries :
          DeleteJourney(c, j, query)
    \/ \E c \in CascadeCalls : DeleteCrewLinks(c)
    \/ \E c \in CascadeCalls : DeleteTickets(c)
    \/ \E c \in CascadeCalls : DeleteRow(c)

SpecCascade == InitCascade /\ [][NextCascade]_vars

(* The pure-function specification: Init draws a call of validate_ticket,  *)
(* the action applies it.                                                  *)
ProbeTrains == [cargo_num : -1..3, places_in_cargo : -1..3]

InitValidate ==
    /\ EmptyDb
    /\ reqs = [r \in ReqIds |-> NoReq]
    /\ response = NoResponse
    /\ probe \in [cargo : -1..4, seat : -1..4, train : ProbeTrains,
                  called : {FALSE}, result : {NoError}]
    /\ calls = [c \in CallIds |-> NoCall]

CallValidateTicket ==
    /\ ~probe.called
    /\ probe' = [probe EXCEPT !.called = TRUE,
                   !.result = validate_ticket(probe.cargo, probe.seat, probe.train)]
    /\ UNCHANGED <<db, reqs, response, calls>>

NextValidate == CallValidateTicket

SpecValidate == InitValidate /\ [][NextValidate]_vars

----------------------------------------------------------------------------
(* Claims. *)

SameSeat(a, b) ==
    a.journey = b.journey /\ a.cargo = b.cargo /\ a.seat = b.seat

Done(r) == reqs[r].pc = "done"
Created(r) == Done(r) /\ reqs[r].outcome = "created"
Failed(r) == Done(r) /\ reqs[r].outcome = "failed"

\* C1: in every reachable state no two distinct committed tickets have the
\* same (journey, cargo, seat).
C1_NoDoubleBooking ==
    \A t1, t2 \in tickets : SameSeat(t1, t2) => t1 = t2

\* C1 witness: two tickets are committed and a request that asked for a
\* seat another order took was refused on uniqueness.
C1_Witness ==
    /\ Cardinality(tickets) >= 2
    /\ \E r \in ReqIds : Failed(r) /\ "unique" \in reqs[r].error.causes

NoRowsOf(r) ==
    /\ \A o \in orders : o.id # r
    /\ \A t \in tickets : t.order # r

SharedSeats(r, q) ==
    {<<i, k>> \in (DOMAIN reqs[r].items) \X (DOMAIN reqs[q].items) :
        SameSeat(reqs[r].items[i], reqs[q].items[k])}

NoSeatTwice(r) ==
    \A i, k \in DOMAIN reqs[r].items :
        SameSeat(reqs[r].items[i], reqs[r].items[k]) => i = k

JourneysExist(r) ==
    \A i \in DOMAIN reqs[r].items : reqs[r].items[i].journey \in JourneyIds

\* The request failed at an INSERT on the unique index of the tickets.
FailedOnConstraint(r) ==
    /\ Failed(r)
    /\ reqs[r].error = [exc |-> "IntegrityError", causes |-> {"unique"}]

\* The request failed in full_clean, in the uniqueness query of Ticket.save.
FailedInFullClean(r) ==
    /\ Failed(r)
    /\ reqs[r].error = [exc |-> "ValidationError", causes |-> {"unique"}]

\* The database aborted the request to break a deadlock.
DeadlockVictim(r) ==
    /\ Failed(r)
    /\ reqs[r].error = [exc |-> "OperationalError", causes |-> {"deadlock"}]

\* Two finished order requests that both passed validation and both asked
\* for the same seat.
Raced(r, q) ==
    /\ r # q /\ SharedSeats(r, q) # {}
    /\ Created(r) \/ Failed(r)
    /\ Created(q) \/ Failed(q)

\* The shared seat is the only reason a request of the pair can fail: no
\* list names a seat twice and the journeys are still there.
OnlySeatConflict(r, q) ==
    /\ NoSeatTwice(r) /\ NoSeatTwice(q)
    /\ JourneysExist(r) /\ JourneysExist(q)

Finishes(r) == reqs[r].pc # "done" /\ reqs'[r].pc = "done"

\* Request r takes a step.
Moves(r) == reqs'[r] # reqs[r]

\* The entry request r is validating.
EntryAtHand(r) == reqs[r].items[reqs[r].idx]

Taken(item) == \E t \in tickets : SameSeat(t, item)

\* An entry as the order contract wants it, once its journey has been
\* read: within the train of that journey and for a free seat.
AcceptableEntry(item) ==
    /\ 1 <= item.cargo /\ item.cargo <= TrainOf(item.train).cargo_num
    /\ 1 <= item.seat /\ item.seat <= TrainOf(item.train).places_in_cargo
    /\ ~Taken(item)

\* Some entry of request r has been found invalid.
HasError(r) == \E i \in DOMAIN reqs[r].errors : reqs[r].errors[i] # "none"

\* The step of r does not take it into the transaction, and the entry at
\* hand is not recorded as valid.
EntryRefused(r) ==
    /\ reqs'[r].pc \in {"fetch", "done"}
    /\ reqs'[r].pc = "fetch" => reqs'[r].errors[reqs[r].idx] # "none"
    /\ reqs'[r].pc = "done" =>
          /\ reqs'[r].outcome = "rejected"
          /\ response'.errors[reqs[r].idx] # "none"

NewTickets == tickets' \ tickets

\* C3: order creation is all-or-nothing.  An entry whose journey is not
\* there when it is looked up, or that is out of the range of its train or
\* for a taken seat when it is validated, is refused, and a request with a
\* refused entry never enters the transaction; a request rejected by
\* validation and a request that fails inside the transaction (at any
\* ticket of its list) leave the order and ticket tables exactly as they
\* were, with no row of the request in them; a request that succeeds adds
\* exactly one Order and one Ticket per entry of its list; and no other
\* step of a request adds a row.
C3_AllOrNothing ==
    [][ /\ \A r \in ReqIds :
            /\ (Finishes(r) /\ reqs'[r].outcome \in {"failed", "rejected"}) =>
                  /\ orders' = orders /\ tickets' = tickets
                  /\ \A o \in orders' : o.id # r
                  /\ \A t \in tickets' : t.order # r
            /\ (Finishes(r) /\ reqs'[r].outcome = "rejected") =>
                  /\ response'.op = "order_create"
                  /\ response'.status = 400
            /\ (Finishes(r) /\ reqs'[r].outcome = "created") =>
                  /\ tickets \subseteq tickets' /\ orders \subseteq orders'
                  /\ \E o \in orders' : orders' \ orders = {o} /\ o.id = r
                  /\ Cardinality(NewTickets) = Len(reqs[r].items)
                  /\ \A t \in NewTickets : t.order = r
                  /\ \A i \in DOMAIN reqs[r].items :
                        \E t \in NewTickets : SameSeat(t, reqs[r].items[i])
        /\ \A r \in ReqIds :
            /\ (/\ reqs[r].pc = "fetch" /\ Moves(r)
                /\ EntryAtHand(r).journey \notin JourneyIds) =>
                  EntryRefused(r)
            /\ (/\ reqs[r].pc = "check" /\ Moves(r)
                /\ ~AcceptableEntry(EntryAtHand(r))) =>
                  EntryRefused(r)
            /\ (reqs[r].pc \in {"fetch", "check"} /\ Moves(r) /\ HasError(r)) =>
                  /\ reqs'[r].pc \in {"fetch", "check", "done"}
                  /\ reqs'[r].pc = "done" => reqs'[r].outcome = "rejected"
                  /\ reqs'[r].pc # "done" => HasError(r)'
        /\ (orders' # orders \/ NewTickets # {}) =>
              \E r \in ReqIds :
                  /\ reqs[r].pc = "commit"
                  /\ Finishes(r) /\ reqs'[r].outcome = "created"
      ]_vars

\* C3 witness: a request of two tickets failed at its second ticket, after
\* its Order row and its first Ticket row had been written, and no row of
\* it is in the tables.
C3_Witness ==
    \E r \in ReqIds :
        /\ Failed(r) /\ Len(reqs[r].items) = 2
        /\ SameSeat(reqs[r].items[1], reqs[r].items[2])
        /\ NoRowsOf(r)

\* C4: validate_ticket passes exactly when 1 <= cargo <= cargo_num and
\* 1 <= seat <= places_in_cargo; when it fails, the error is keyed by cargo
\* or by seat, the value of that field is out of range, and the error
\* states that field's bounds, 1 and the train's count.
C4_ValidateTicketRange ==
    probe.called =>
        LET cargoOk == 1 <= probe.cargo /\ probe.cargo <= probe.train.cargo_num
            seatOk == 1 <= probe.seat /\ probe.seat <= probe.train.places_in_cargo
            e == probe.result
        IN /\ (e = NoError) <=> (cargoOk /\ seatOk)
           /\ e # NoError =>
                 \/ /\ e.field = "cargo" /\ ~cargoOk
                    /\ e.train_attr = "cargo_num"
                    /\ e.low = 1 /\ e.high = probe.train.cargo_num
                 \/ /\ e.field = "seat" /\ ~seatOk
                    /\ e.train_attr = "places_in_cargo"
                    /\ e.low = 1 /\ e.high = probe.train.places_in_cargo

\* C4 witness: a call with the cargo in range and the seat one past the
\* last seat of the car has failed naming the seat.
C4_Witness ==
    /\ probe.called
    /\ probe.cargo = probe.train.cargo_num /\ probe.cargo >= 1
    /\ probe.seat = probe.train.places_in_cargo + 1
    /\ probe.result.field = "seat"

TicketInRange(t) ==
    LET train == TrainOf(JourneyOf(t.journey).train)
    IN /\ 1 <= t.cargo /\ t.cargo <= train.cargo_num
       /\ 1 <= t.seat /\ t.seat <= train.places_in_cargo

\* C5: in every reachable state every committed ticket has its cargo and
\* its seat within the current train of its journey.
C5_TicketsWithinTrain == \A t \in tickets : TicketInRange(t)

Sold(j) == Cardinality({t \in tickets : t.journey = j.id})

\* C6: every entry of a journey list response carries tickets_available
\* equal to the cargo_num times the places_in_cargo of the journey's train
\* minus the number of tickets committed for the journey, computed from the
\* tables as they are when the list is served, and every journey in the
\* table has its entry.
C6_ListShowsAvailability ==
    [][ (response' # response /\ response'.op = "journey_list") =>
          /\ {e.id : e \in response'.results} = JourneyIds
          /\ \A e \in response'.results :
                LET j == JourneyOf(e.id)
                    train == TrainOf(j.train)
                IN e.tickets_available =
                      train.cargo_num * train.places_in_cargo - Sold(j)
      ]_vars

\* C6 witness: a list served after an order committed shows fewer tickets
\* available than the train has seats.
C6_Witness ==
    /\ response.op = "journey_list"
    /\ \E e \in response.results :
          /\ e.id \in JourneyIds
          /\ Sold(JourneyOf(e.id)) >= 1
          /\ e.tickets_available = e.train_capacity - Sold(JourneyOf(e.id))
          /\ e.tickets_available < e.train_capacity

\* C7: for every journey in every reachable state tickets_available is not
\* negative.
C7_AvailabilityNotNegative ==
    \A j \in journeys : tickets_available(j) >= 0

\* C8: in every reachable state every route has a source different from
\* its destination.
C8_RouteEndsDiffer == \A r \in routes : r.source # r.destination

\* C9: in every reachable state every journey arrives after it departs.
C9_ArrivalAfterDeparture ==
    \A j \in journeys : j.arrival_time > j.departure_time

\* C10: an entry of an order request, at any position of its list, that is
\* for a seat a committed ticket holds when the entry is validated is
\* refused with the error of the unique set; a request with a refused
\* entry goes on through the rest of its list with the errors it has and
\* is then answered 400 with them; and a request answered 400 has written
\* nothing: no Order, no Ticket, no transaction was opened.
C10_TakenSeatRejected ==
    [][ \A r \in ReqIds :
          /\ (/\ reqs[r].pc = "check" /\ Moves(r)
              /\ Taken(EntryAtHand(r))) =>
                /\ reqs'[r].pc \in {"fetch", "done"}
                /\ reqs'[r].pc = "fetch" =>
                      reqs'[r].errors[reqs[r].idx] = "non_field_errors"
                /\ reqs'[r].pc = "done" =>
                      response'.errors[reqs[r].idx] = "non_field_errors"
          /\ (reqs[r].pc \in {"fetch", "check"} /\ Moves(r) /\ HasError(r)) =>
                /\ reqs'[r].pc \in {"fetch", "check", "done"}
                /\ reqs'[r].pc # "done" =>
                      \A i \in DOMAIN reqs[r].errors :
                          reqs'[r].errors[i] = reqs[r].errors[i]
                /\ reqs'[r].pc = "done" =>
                      /\ reqs'[r].outcome = "rejected"
                      /\ \A i \in DOMAIN reqs[r].errors :
                            response'.errors[i] = reqs[r].errors[i]
          /\ (Finishes(r) /\ reqs'[r].outcome = "rejected") =>
                /\ response'.op = "order_create" /\ response'.status = 400
                /\ reqs[r].ownOrder = {} /\ reqs[r].ownTickets = {}
                /\ orders' = orders /\ tickets' = tickets
                /\ \A o \in orders' : o.id # r
                /\ \A t \in tickets' : t.order # r
      ]_vars

\* C10 witness: the answer to an order request of two tickets whose second
\* ticket is for a taken seat and whose first ticket is valid.
C10_Witness ==
    \E r \in ReqIds :
        /\ Done(r) /\ reqs[r].outcome = "rejected"
        /\ Len(reqs[r].items) = 2
        /\ \E t \in tickets : SameSeat(t, reqs[r].items[2])
        /\ response.op = "order_create" /\ response.status = 400
        /\ response.errors = <<"none", "non_field_errors">>

SeatsFree(r) ==
    \A i \in DOMAIN reqs[r].items : ~Taken(reqs[r].items[i])

\* C11: an order request whose list names a seat twice, the seat being
\* booked by nobody and the duplicate being the only thing that fails, ends
\* rejected with a validation error (HTTP 400), never as a server error,
\* and leaves no Order and no Ticket row.
C11_DuplicateInListRejected ==
    \A r \in ReqIds :
        (/\ Done(r) /\ ~NoSeatTwice(r) /\ SeatsFree(r)
         /\ Failed(r) => reqs[r].error.causes = {"unique"}) =>
            /\ reqs[r].outcome = "rejected"
            /\ NoRowsOf(r)

\* Request r arrives in this step.
Arrives(r) == reqs[r].pc = "idle" /\ reqs'[r].pc # "idle"

\* C12: an order request with an empty ticket list is answered 400 with the
\* error of the empty list and writes no Order row; and every Order row
\* that is committed is committed together with at least one Ticket row
\* of it.
C12_EmptyListRejected ==
    [][ /\ \A r \in ReqIds :
              (Arrives(r) /\ Len(reqs'[r].items) = 0) =>
                  /\ reqs'[r].pc = "done" /\ reqs'[r].outcome = "rejected"
                  /\ response'.op = "order_create"
                  /\ response'.status = 400
                  /\ response'.errors = <<"empty">>
                  /\ orders' = orders /\ tickets' = tickets
        /\ \A o \in orders' \ orders :
              \E t \in NewTickets : t.order = o.id
      ]_vars

\* C12 witness: a request with an empty list has been rejected while an
\* order with tickets is committed.
C12_Witness ==
    /\ \E r \in ReqIds :
          /\ Done(r) /\ reqs[r].outcome = "rejected"
          /\ reqs[r].items = <<>>
    /\ response = Resp("order_create", 400, <<"empty">>)
    /\ orders # {}

\* C13: every committed order is owned by the user who was authenticated
\* on the request that created it, whatever owner the request body named;
\* and every order list response for a user holds exactly the orders that
\* user owns, so no order of another user is in it.
C13_OrdersBelongToTheirUser ==
    /\ \A o \in orders :
          /\ Created(o.id)
          /\ o.user = reqs[o.id].user
          /\ IsAuthenticated(o.user)
    /\ (response.op = "order_list" /\ response.status = 200) =>
          /\ response.results = {o \in orders : o.user = response.user}
          /\ \A o \in response.results : reqs[o.id].user = response.user
    /\ (response.op = "order_list" /\ response.status # 200) =>
          response = Resp("order_list", 401, <<>>)

\* C13 witness: two users each own an order, one of the requests named the
\* other user as owner, and the list of one user shows its one order.
C13_Witness ==
    /\ \E o1, o2 \in orders : o1.user = "u1" /\ o2.user = "u2"
    /\ \E r \in ReqIds :
          Created(r) /\ reqs[r].user = "u1" /\ reqs[r].sent_user = "u2"
    /\ response.op = "order_list" /\ response.status = 200
    /\ response.user = "u1"
    /\ Cardinality(response.results) = 1

\* C14: in every step, an order that stays in the table keeps its owner
\* and its created_at, and a ticket that stays in the table keeps its
\* order, journey, cargo and seat; rows are told apart by their ids, which
\* are unique; and a ticket enters the table only in the step that commits
\* the order creation it belongs to, together with its Order row.
C14_OrdersAndTicketsImmutable ==
    [][ /\ \A o \in orders : \A o2 \in orders' : o2.id = o.id => o2 = o
        /\ \A t \in tickets : \A t2 \in tickets' : t2.id = t.id => t2 = t
        /\ \A o1, o2 \in orders' : o1.id = o2.id => o1 = o2
        /\ \A t1, t2 \in tickets' : t1.id = t2.id => t1 = t2
        /\ \A t \in tickets' :
              (\A t0 \in tickets : t0.id # t.id) =>
                  /\ reqs[t.order].pc = "commit"
                  /\ reqs'[t.order].pc = "done"
                  /\ reqs'[t.order].outcome = "created"
                  /\ \E o \in orders' \ orders : o.id = t.order
      ]_vars

\* C14 witness: after two orders were committed at different times, the
\* journey was deleted with its tickets, and both orders are still in the
\* table.
C14_Witness ==
    /\ \E o1, o2 \in orders : o1.created_at # o2.created_at
    /\ tickets = {}
    /\ response = Resp("journey_delete", 204, {})

\* C15: in every reachable state every committed order has at least one
\* committed ticket.
C15_OrdersHaveTickets ==
    \A o \in orders : \E t \in tickets : t.order = o.id

\* No journey request is in progress.
NoCallOpen == \A c \in CallIds : calls[c].pc = "idle"

\* C16: a journey creation answered 400 names fields and one answered 201
\* has stored its journey; and, once no journey request is in progress,
\* every stored journey has an existing route, an existing train and a
\* crew that is not empty.
C16_StoredJourneysComplete ==
    /\ response.op = "journey_create" =>
          \/ response.status = 400 /\ response.errors # {}
          \/ response.status = 201 /\ response.errors = {}
          \/ response.status = 500
    /\ NoCallOpen =>
          \A j \in journeys :
              j.route \in RouteIds /\ j.train \in TrainIds /\ j.crew # {}

\* The text of a number, and of a list of numbers joined by `sep`.
RECURSIVE NumberText(_)
NumberText(n) ==
    LET digit == CASE n % 10 = 0 -> "0" [] n % 10 = 1 -> "1"
                   [] n % 10 = 2 -> "2" [] n % 10 = 3 -> "3"
                   [] n % 10 = 4 -> "4" [] n % 10 = 5 -> "5"
                   [] n % 10 = 6 -> "6" [] n % 10 = 7 -> "7"
                   [] n % 10 = 8 -> "8" [] n % 10 = 9 -> "9"
    IN IF n < 10 THEN <<digit>> ELSE Append(NumberText(n \div 10), digit)

RECURSIVE ListText(_, _)
ListText(ids, sep) ==
    IF Len(ids) = 1 THEN NumberText(ids[1])
    ELSE ListText(SubSeq(ids, 1, Len(ids) - 1), sep) \o sep
            \o NumberText(ids[Len(ids)])

\* The id lists a client may send: one or two of the station ids.
IdLists == SeqsUpTo({1, 2, 12}, 2) \ {<<>>}

\* Whether the parameter is the text of the id list, the ids joined by ","
\* or, as the repository's tests send them, by ", ".
Sends(param, ids) ==
    param \in {Given(ListText(ids, <<",">>)), Given(ListText(ids, <<",", " ">>))}

NoRowTwice(seq) == \A i, k \in DOMAIN seq : seq[i] = seq[k] => i = k

\* C17: a route list request whose source and destination parameters are
\* each absent or the text of a list of ids is answered 200 with exactly
\* the routes whose source is in the source list (when given) and whose
\* destination is in the destination list (when given), each once; with
\* neither parameter, all routes.
C17_RouteListFilters ==
    response.op = "route_list" =>
        /\ NoRowTwice(response.results)
        /\ Elements(response.results) \subseteq routes
        /\ \A S \in IdLists \cup {<<>>} :
              (IF S = <<>> THEN response.query.source = Absent
                           ELSE Sends(response.query.source, S)) =>
                \A D \in IdLists \cup {<<>>} :
                  (IF D = <<>> THEN response.query.destination = Absent
                               ELSE Sends(response.query.destination, D)) =>
                      /\ response.status = 200
                      /\ Elements(response.results) =
                            {r \in routes :
                                /\ S # <<>> => r.source \in Elements(S)
                                /\ D # <<>> => r.destination \in Elements(D)}

\* C17 witness: of three routes, the list for source 12 and destinations
\* 2 and 1 is the one route from 12 to 2.
C17_Witness ==
    /\ routes = ListedRoutes
    /\ response.op = "route_list" /\ response.status = 200
    /\ response.query.source = Given(<<"1", "2">>)
    /\ response.query.destination = Given(<<"2", ",", "1">>)
    /\ Len(response.results) = 1
    /\ response.results[1].id = 3

\* A number in two digits.
TwoDigits(n) == IF n < 10 THEN <<"0">> \o NumberText(n) ELSE NumberText(n)

\* The text of a date as the claim gives it: 2024-08-28.
DateText(date) ==
    NumberText(date[1]) \o <<"-">> \o TwoDigits(date[2]) \o <<"-">>
        \o TwoDigits(date[3])

\* The dates asked for, and the hours of each: the 28th is hours 0 to 23,
\* the 29th hours 24 to 47, the 30th hours 48 to 71.
AskedDates == {<<2024, 8, 28>>, <<2024, 8, 29>>, <<2024, 8, 30>>}

FallsOn(datetime, date) ==
    \/ date[3] = 28 /\ datetime \in 0..23
    \/ date[3] = 29 /\ datetime \in 24..47
    \/ date[3] = 30 /\ datetime \in 48..71

NoDate == <<>>

\* C18: a journey list request whose departure_time is absent or the text
\* of a date and whose route is absent or the text of a route id is
\* answered 200 with exactly the journeys that leave on that date, at
\* whatever hour (when given), on that route (when given).
C18_JourneyListFilters ==
    (response.op = "journey_list" /\ "query" \in DOMAIN response) =>
        \A date \in AskedDates \cup {NoDate} :
          (IF date = NoDate THEN response.query.departure_time = Absent
           ELSE response.query.departure_time = Given(DateText(date))) =>
            \A route \in {0, 1, 2} :
              (IF route = 0 THEN response.query.route = Absent
               ELSE response.query.route = Given(NumberText(route))) =>
                  /\ response.status = 200
                  /\ {e.id : e \in response.results} =
                        {j.id : j \in
                           {x \in journeys :
                              /\ date # NoDate =>
                                    FallsOn(x.departure_time, date)
                              /\ route # 0 => x.route = route}}

\* C18 witness: of the four journeys, the list for 2024-08-28 and route 1
\* holds the journey of 00:00 and the journey of 23:00.
C18_Witness ==
    /\ journeys = ListedJourneys
    /\ response.op = "journey_list" /\ response.status = 200
    /\ "query" \in DOMAIN response
    /\ response.query.departure_time = Given(DateText(<<2024, 8, 28>>))
    /\ response.query.route = Given(<<"1">>)
    /\ {e.id : e \in response.results} = {1, 2}

\* Two characters that are the same letter, in either case.
SameLetter(c, d) ==
    \/ c = d
    \/ {c, d} = {"a", "A"}
    \/ {c, d} = {"b", "B"}

\* The text occurs in the name, case aside, at some place.
Occurs(text, name) ==
    \E k \in 0..(Len(name) - Len(text)) :
        \A i \in 1..Len(text) : SameLetter(name[k + i], text[i])

\* C19: a train list request whose train_type is absent or the text of an
\* id is answered 200 with exactly the trains whose name contains the name
\* parameter, case aside (when given), and whose train type is that id
\* (when given), each once.
C19_TrainListFilters ==
    response.op = "train_list" =>
        /\ NoRowTwice(response.results)
        /\ \A type \in 0..3 :
              (IF type = 0 THEN response.query.train_type = Absent
               ELSE response.query.train_type = Given(NumberText(type))) =>
                  /\ response.status = 200
                  /\ Elements(response.results) =
                        {t \in trains :
                            /\ response.query.name # Absent =>
                                  Occurs(ValueOf(response.query.name), t.name)
                            /\ type # 0 => t.train_type = type}

\* C19 witness: of the three trains, the list for name "ab" and train type
\* 1 is the one train named "Ab".
C19_Witness ==
    /\ trains = ListedTrains
    /\ response.op = "train_list" /\ response.status = 200
    /\ response.query.name = Given(<<"a", "b">>)
    /\ response.query.train_type = Given(<<"1">>)
    /\ Len(response.results) = 1
    /\ response.results[1].id = 1

\* C20: validate_ticket looks at cargo first and stops at the first value
\* out of range: with cargo out of range the error names cargo and its
\* train attribute, whatever the seat is; the error names seat only with
\* cargo in range and seat out of range; the error is for one field.
C20_CargoBeforeSeat ==
    probe.called =>
        LET cargoOut == probe.cargo < 1 \/ probe.cargo > probe.train.cargo_num
            seatOut == probe.seat < 1 \/ probe.seat > probe.train.places_in_cargo
        IN /\ cargoOut =>
                 probe.result = RangeError("cargo", "cargo_num",
                                           probe.train.cargo_num)
           /\ probe.result.field = "seat" => ~cargoOut /\ seatOut
           /\ probe.result.field \in {"none", "cargo", "seat"}

\* C20 witness: a call with cargo and seat both out of range has failed
\* naming the cargo.
C20_Witness ==
    /\ probe.called
    /\ probe.cargo > probe.train.cargo_num
    /\ probe.seat > probe.train.places_in_cargo
    /\ probe.result.field = "cargo"

\* The rows a ticket and a journey point to are in their tables.
ReferencesResolve ==
    /\ \A t \in tickets :
          /\ t.journey \in JourneyIds
          /\ \E o \in orders : o.id = t.order
    /\ \A j \in journeys :
          /\ j.route \in RouteIds
          /\ j.train \in TrainIds

\* The journeys of this state whose id is the id of no journey of the next.
GoneJourneys == {j \in journeys : \A k \in journeys' : k.id # j.id}

\* Delete request c is answered 204 in this step.
Deleted(c) ==
    /\ calls[c].op = "journey_delete" /\ calls'[c].pc = "idle"
    /\ response' = Resp("journey_delete", 204, {})

\* A step in which a journey leaves the table is the answer 204 of a
\* delete of that journey: one journey leaves, the tickets that leave are
\* exactly the tickets of that journey, no order and no open order request
\* changes; a delete answered 204 leaves no journey of its id and no ticket
\* for it; in any other step no ticket and no order leaves its table.
DeleteStep ==
    /\ IF GoneJourneys # {}
       THEN /\ Cardinality(GoneJourneys) = 1
            /\ \E c \in CallIds :
                  Deleted(c) /\ GoneJourneys = {JourneyOf(calls[c].row.id)}
            /\ journeys' = journeys \ GoneJourneys
            /\ tickets' = {t \in tickets :
                              \A j \in GoneJourneys : t.journey # j.id}
            /\ orders' = orders
            /\ reqs' = reqs
       ELSE /\ tickets \subseteq tickets'
            /\ orders \subseteq orders'
    /\ \A c \in CallIds :
          Deleted(c) =>
              /\ \A j \in journeys' : j.id # calls[c].row.id
              /\ \A t \in tickets' : t.journey # calls[c].row.id
              /\ tickets' = {t \in tickets : t.journey # calls[c].row.id}

\* C21: in every reachable state every committed ticket names a journey
\* and an order that are in their tables and every journey names a route
\* and a train that are in theirs; and a step that deletes a journey
\* removes that journey and exactly the tickets sold for it, leaving the
\* tickets of the other journeys and all orders as they were.
C21_ReferentialIntegrity ==
    []ReferencesResolve /\ [][DeleteStep]_vars

\* C21 witness: journey 1 was deleted after an order bought a ticket for
\* each of the two journeys; journey 2, its ticket and the order are still
\* there, and the ticket for journey 1 is gone.
C21_Witness ==
    /\ response = Resp("journey_delete", 204, {})
    /\ JourneyIds = {2}
    /\ \E o \in orders :
          /\ Created(o.id) /\ Len(reqs[o.id].items) = 2
          /\ \E t \in tickets :
                {x \in tickets : x.order = o.id} = {t} /\ t.journey = 2

====
